---- MODULE Spec2Model ----
(***************************************************************************)
(* Task and Ticket records of dispatch (src/dispatch/task/models.py and    *)
(* src/dispatch/ticket/models.py): the task table with its column          *)
(* defaults and its before_update hook, the foreign keys with ON DELETE    *)
(* CASCADE, the two association tables, and the pydantic transfer shapes   *)
(* TaskCreate, TaskUpdate and TicketRead.                                  *)
(*                                                                         *)
(* Time is counted in days: datetime.utcnow() is the variable now and      *)
(* timedelta(days=n) is n.  An Optional value is None (the empty tuple)    *)
(* or Some(v) (the one-element tuple).  The keyword arguments of a shape   *)
(* are a function from the names that were passed to their values, so a    *)
(* field that is absent differs from a field that is passed as None.       *)
(***************************************************************************)
EXTENDS Integers, FiniteSets, Sequences, TLC

VARIABLES now, seq, incident, participant, task, ticket, task_assignees, task_tickets,
          last, ticket_read

vars == <<now, seq, incident, participant, task, ticket, task_assignees, task_tickets,
          last, ticket_read>>

\* ---------------------------------------------------------------- bounds
\* The last day the clock reaches.
MaxTime == 2

\* The tasks created where the attributes, creators, owners and assignees of
\* a task vary.
MaxTasks == 1

\* The tasks created where the tasks of several incidents are told apart.
MaxRelatedTasks == 2

\* The rows created in the incident, participant and ticket tables.
MaxIncidents == 2

MaxParticipants == 2

MaxTickets == 1

\* ------------------------------------------------------- optional values
None == <<>>

Some(v) == <<v>>

Get(kwargs, field) == IF field \in DOMAIN kwargs THEN kwargs[field] ELSE None

\* One keyword argument: absent, or passed with one of the values.
Arg(field, values) == {<<>>} \cup {field :> v : v \in values}

\* ----------------------------------------------------------------- enums
TaskStatus == [open |-> "Open", resolved |-> "Resolved"]

TaskSource == [incident |-> "Incident", post_incident_review |-> "Post Incident Review"]

TaskPriority == [low |-> "Low", medium |-> "Medium", high |-> "High"]

Values(enum) == {enum[k] : k \in DOMAIN enum}

INCIDENT_TICKET_DESCRIPTION == "Ticket for tracking purposes. It contains information and links to resources."

\* -------------------------------------------------------- transfer shapes
\* A pydantic field of an enum type with a default: absent takes the default,
\* None and every value outside the enumeration fail validation.
EnumField(kwargs, field, enum, default) ==
    IF field \notin DOMAIN kwargs THEN [ok |-> TRUE, value |-> default]
    ELSE IF kwargs[field] # None /\ kwargs[field][1] \in Values(enum)
         THEN [ok |-> TRUE, value |-> kwargs[field][1]]
         ELSE [ok |-> FALSE, value |-> default]

\* The fields of TaskBase the task table stores.  status is the one field
\* typed by its enumeration; source and priority are Optional[str].
TaskBase(kwargs) ==
    LET status == EnumField(kwargs, "status", TaskStatus, TaskStatus.open)
    IN  [ok         |-> status.ok,
         status     |-> status.value,
         source     |-> Get(kwargs, "source"),
         priority   |-> Get(kwargs, "priority"),
         resolve_by |-> Get(kwargs, "resolve_by"),
         incident   |-> Get(kwargs, "incident"),
         tickets    |-> IF Get(kwargs, "tickets") = None THEN {} ELSE kwargs["tickets"][1]]

\* TaskCreate: assignees defaults to the empty list, owner and creator are
\* optional.
TaskCreate(kwargs) ==
    LET base == TaskBase(kwargs)
    IN  [ok         |-> base.ok,
         status     |-> base.status,
         source     |-> base.source,
         priority   |-> base.priority,
         resolve_by |-> base.resolve_by,
         incident   |-> base.incident,
         tickets    |-> base.tickets,
         assignees  |-> IF Get(kwargs, "assignees") = None THEN {} ELSE kwargs["assignees"][1],
         owner      |-> Get(kwargs, "owner"),
         creator    |-> Get(kwargs, "creator")]

\* TaskUpdate without its own declaration of assignees: the default of TaskBase.
TaskUpdateAssigneesInherited(kwargs) ==
    IF "assignees" \in DOMAIN kwargs /\ kwargs["assignees"] = None
    THEN [ok |-> FALSE, value |-> {}]
    ELSE [ok |-> TRUE,
          value |-> IF "assignees" \in DOMAIN kwargs THEN kwargs["assignees"][1] ELSE {}]

\* TaskUpdate redeclares assignees without a default: the field is required,
\* and being a List (not an Optional) it rejects None as well.
TaskUpdateAssignees(kwargs) ==
    IF "assignees" \in DOMAIN kwargs /\ kwargs["assignees"] # None
    THEN [ok |-> TRUE, value |-> kwargs["assignees"][1]]
    ELSE [ok |-> FALSE, value |-> {}]

TaskUpdate(kwargs) ==
    LET base == TaskBase(kwargs)
        assignees == TaskUpdateAssignees(kwargs)
    IN  [ok         |-> base.ok /\ assignees.ok,
         status     |-> base.status,
         source     |-> base.source,
         priority   |-> base.priority,
         resolve_by |-> base.resolve_by,
         assignees  |-> assignees.value,
         owner      |-> Get(kwargs, "owner")]

\* The validator returning the value it is given when there is one.
set_description_keeping(v) == IF v = None THEN INCIDENT_TICKET_DESCRIPTION ELSE v[1]

\* TicketRead.set_description: a validator with pre=True, always=True.
set_description(v) == INCIDENT_TICKET_DESCRIPTION

\* A validator declared with always=True runs on the default (None) when the
\* field is absent, and with pre=True on the raw value when it is passed.
TicketRead(kwargs) ==
    [resource_id   |-> Get(kwargs, "resource_id"),
     resource_type |-> Get(kwargs, "resource_type"),
     weblink       |-> Get(kwargs, "weblink"),
     description   |-> Some(set_description(Get(kwargs, "description")))]

\* ----------------------------------------------------------- task table
\* The default without the branch of post incident reviews.
default_resolution_time_one_day(context, utcnow) == utcnow + 1

\* default_resolution_time(context), with datetime.utcnow() passed in.
default_resolution_time(context, utcnow) ==
    LET task_source == context["source"]
    IN  IF task_source = Some(TaskSource.incident) THEN utcnow + 1
        ELSE IF task_source = Some(TaskSource.post_incident_review) THEN utcnow + 7
        ELSE utcnow + 1

\* A column default applies when the INSERT carries no value for the column.
ColumnDefault(value, default) == IF value = None THEN default ELSE value[1]

\* The row an INSERT of Task(**shape) stores: the column defaults of source,
\* priority, status and resolve_by; resolved_at has no default.
InsertRow(shape, utcnow) ==
    [incident_id |-> shape.incident,
     creator_id  |-> shape.creator,
     owner_id    |-> shape.owner,
     source      |-> ColumnDefault(shape.source, TaskSource.incident),
     priority    |-> ColumnDefault(shape.priority, TaskPriority.low),
     status      |-> ColumnDefault(Some(shape.status), TaskStatus.open),
     resolved_at |-> None,
     resolve_by  |-> IF shape.resolve_by = None
                     THEN Some(default_resolution_time([source |-> shape.source], utcnow))
                     ELSE shape.resolve_by]

\* The listener stamping only a row that has no timestamp yet.
_resolved_at_once(target, utcnow) ==
    IF target.status = TaskStatus.resolved /\ target.resolved_at = None
    THEN [target EXCEPT !.resolved_at = Some(utcnow)]
    ELSE target

\* The listener clearing the timestamp of a row that is not resolved.
_resolved_at_clearing(target, utcnow) ==
    IF target.status = TaskStatus.resolved
    THEN [target EXCEPT !.resolved_at = Some(utcnow)]
    ELSE [target EXCEPT !.resolved_at = None]

\* Task._resolved_at(mapper, connection, target), the before_update listener.
_resolved_at(target, utcnow) ==
    IF target.status = TaskStatus.resolved
    THEN [target EXCEPT !.resolved_at = Some(utcnow)]
    ELSE target

\* The pending change-set of an update: the fields that were passed replace
\* the stored ones.
ApplyUpdate(row, kwargs, shape) ==
    [row EXCEPT
        !.status   = IF "status" \in DOMAIN kwargs THEN shape.status ELSE @,
        !.priority = IF shape.priority # None THEN shape.priority[1] ELSE @,
        !.owner_id = IF "owner" \in DOMAIN kwargs THEN shape.owner ELSE @]

\* ------------------------------------------------------------- the store
NoTables ==
    [incident |-> {}, participant |-> {}, task |-> <<>>, ticket |-> <<>>,
     task_assignees |-> {}, task_tickets |-> {}]

\* The tables as they stand; a DELETE records them in last.before.
Tables ==
    [incident       |-> incident,
     participant    |-> participant,
     task           |-> task,
     ticket         |-> ticket,
     task_assignees |-> task_assignees,
     task_tickets   |-> task_tickets]

\* The last request and its outcome: ok is FALSE for a validation error.
Outcome(op, id, kwargs, ok) ==
    [op |-> op, id |-> id, kwargs |-> kwargs, ok |-> ok, before |-> NoTables]

\* A foreign key holds NULL or the id of a row of the table it references.
References(fk, table) == IF fk = None THEN TRUE ELSE fk[1] \in table

\* Task.assignees: the participants the task_assignees rows give a task.
Assignees(rows, id) == {r.participant_id : r \in {x \in rows : x.task_id = id}}

\* The assignees of a task replaced by the list of a validated update.
ReplaceAssignees(rows, id, assignees) ==
    {r \in rows : r.task_id # id} \cup
    {[participant_id |-> p, task_id |-> id] : p \in assignees}

Init ==
    /\ now = 0
    /\ seq = [incident |-> 0, participant |-> 0, task |-> 0, ticket |-> 0]
    /\ incident = {}
    /\ participant = {}
    /\ task = <<>>
    /\ ticket = <<>>
    /\ task_assignees = {}
    /\ task_tickets = {}
    /\ last = Outcome("init", 0, <<>>, TRUE)
    /\ ticket_read = [constructed |-> FALSE, kwargs |-> <<>>, shape |-> TicketRead(<<>>)]

\* datetime.utcnow() moves on between operations.
Tick ==
    /\ now < MaxTime
    /\ now' = now + 1
    /\ UNCHANGED <<seq, incident, participant, task, ticket, task_assignees,
                   task_tickets, last, ticket_read>>

\* Rows of the incident and participant tables, which the foreign keys of
\* task, ticket and task_assignees reference.
CreateIncident ==
    /\ seq.incident < MaxIncidents
    /\ seq' = [seq EXCEPT !.incident = @ + 1]
    /\ incident' = incident \cup {seq.incident + 1}
    /\ last' = Outcome("create_incident", seq.incident + 1, <<>>, TRUE)
    /\ UNCHANGED <<now, participant, task, ticket, task_assignees, task_tickets,
                   ticket_read>>

CreateParticipant ==
    /\ seq.participant < MaxParticipants
    /\ seq' = [seq EXCEPT !.participant = @ + 1]
    /\ participant' = participant \cup {seq.participant + 1}
    /\ last' = Outcome("create_participant", seq.participant + 1, <<>>, TRUE)
    /\ UNCHANGED <<now, incident, task, ticket, task_assignees, task_tickets,
                   ticket_read>>

\* INSERT of a Ticket row for an incident.
CreateTicket(incident_id) ==
    /\ seq.ticket < MaxTickets
    /\ References(incident_id, incident)
    /\ seq' = [seq EXCEPT !.ticket = @ + 1]
    /\ ticket' = (seq.ticket + 1 :> [incident_id |-> incident_id]) @@ ticket
    /\ last' = Outcome("create_ticket", seq.ticket + 1, <<>>, TRUE)
    /\ UNCHANGED <<now, incident, participant, task, task_assignees, task_tickets,
                   ticket_read>>

\* A TaskCreate shape is validated and, when valid, inserted as a Task row
\* with its assignee and ticket association rows.
CreateTask(kwargs) ==
    LET shape == TaskCreate(kwargs)
        id == seq.task + 1
    IN  /\ IF ~shape.ok
           THEN /\ last' = Outcome("create_task", 0, kwargs, FALSE)
                /\ UNCHANGED <<seq, task, task_assignees, task_tickets>>
           ELSE /\ References(shape.incident, incident)
                /\ References(shape.creator, participant)
                /\ References(shape.owner, participant)
                /\ shape.assignees \subseteq participant
                /\ shape.tickets \subseteq DOMAIN ticket
                /\ seq' = [seq EXCEPT !.task = id]
                /\ task' = (id :> InsertRow(shape, now)) @@ task
                /\ task_assignees' = task_assignees \cup
                       {[participant_id |-> p, task_id |-> id] : p \in shape.assignees}
                /\ task_tickets' = task_tickets \cup
                       {[ticket_id |-> k, task_id |-> id] : k \in shape.tickets}
                /\ last' = Outcome("create_task", id, kwargs, TRUE)
        /\ UNCHANGED <<now, incident, participant, ticket, ticket_read>>

\* A TaskUpdate shape is validated and, when valid, applied to the row; the
\* before_update listener runs on the pending row in the same flush.
UpdateTask(id, kwargs) ==
    LET shape == TaskUpdate(kwargs)
    IN  /\ id \in DOMAIN task
        /\ IF ~shape.ok
           THEN /\ last' = Outcome("update_task", id, kwargs, FALSE)
                /\ UNCHANGED <<task, task_assignees>>
           ELSE /\ References(shape.owner, participant)
                /\ shape.assignees \subseteq participant
                /\ task' = [task EXCEPT
                               ![id] = _resolved_at(ApplyUpdate(@, kwargs, shape), now)]
                /\ task_assignees' = ReplaceAssignees(task_assignees, id, shape.assignees)
                /\ last' = Outcome("update_task", id, kwargs, TRUE)
        /\ UNCHANGED <<now, seq, incident, participant, ticket, task_tickets, ticket_read>>

Restrict(f, keep) == [k \in keep |-> f[k]]

\* owner_id without ON DELETE CASCADE.
DeadTasksOwnerKept(incidents, participants) ==
    {t \in DOMAIN task :
        \/ task[t].incident_id \in {Some(i) : i \in incidents}
        \/ task[t].creator_id \in {Some(p) : p \in participants}}

\* The ids of the Task rows deleted with the given incidents and participants:
\* incident_id, creator_id and owner_id are ON DELETE CASCADE.
DeadTasks(incidents, participants) ==
    {t \in DOMAIN task :
        \/ task[t].incident_id \in {Some(i) : i \in incidents}
        \/ task[t].creator_id \in {Some(p) : p \in participants}
        \/ task[t].owner_id \in {Some(p) : p \in participants}}

\* The ids of the Ticket rows deleted with the given incidents.
DeadTickets(incidents) ==
    {k \in DOMAIN ticket : ticket[k].incident_id \in {Some(i) : i \in incidents}}

\* The task_assignees rows a DELETE leaves: both columns are ON DELETE CASCADE.
LiveAssignees(participants, tasks) ==
    {r \in task_assignees : r.participant_id \notin participants /\ r.task_id \notin tasks}

\* task_tickets.ticket_id without ON DELETE CASCADE.
LiveTicketsOfTasks(tickets, tasks) == {r \in task_tickets : r.task_id \notin tasks}

\* The task_tickets rows a DELETE leaves: both columns are ON DELETE CASCADE.
LiveTickets(tickets, tasks) ==
    {r \in task_tickets : r.ticket_id \notin tickets /\ r.task_id \notin tasks}

\* DELETE of rows of incident and participant, every ON DELETE CASCADE
\* foreign key followed.
Cascade(incidents, participants) ==
    LET dead_tasks == DeadTasks(incidents, participants)
        dead_tickets == DeadTickets(incidents)
    IN  /\ incident' = incident \ incidents
        /\ participant' = participant \ participants
        /\ task' = Restrict(task, DOMAIN task \ dead_tasks)
        /\ ticket' = Restrict(ticket, DOMAIN ticket \ dead_tickets)
        /\ task_assignees' = LiveAssignees(participants, dead_tasks)
        /\ task_tickets' = LiveTickets(dead_tickets, dead_tasks)

DeleteIncident(id) ==
    /\ id \in incident
    /\ Cascade({id}, {})
    /\ last' = [Outcome("delete_incident", id, <<>>, TRUE) EXCEPT !.before = Tables]
    /\ UNCHANGED <<now, seq, ticket_read>>

DeleteParticipant(id) ==
    /\ id \in participant
    /\ Cascade({}, {id})
    /\ last' = [Outcome("delete_participant", id, <<>>, TRUE) EXCEPT !.before = Tables]
    /\ UNCHANGED <<now, seq, ticket_read>>

\* A TicketRead shape is constructed from keyword arguments.
ConstructTicketRead(kwargs) ==
    /\ ticket_read' = [constructed |-> TRUE, kwargs |-> kwargs, shape |-> TicketRead(kwargs)]
    /\ UNCHANGED <<now, seq, incident, participant, task, ticket, task_assignees,
                   task_tickets, last>>

\* ------------------------------------------------------------ the inputs
Merge(A, B) == {a @@ b : a \in A, b \in B}

\* Values passed for the attributes of a task: inside and outside the
\* enumerations, None, and absent.
SourceArgs ==
    Arg("source", {None, Some("Incident"), Some("Post Incident Review"), Some("Customer")})

PriorityArgs == Arg("priority", {Some("High"), Some("Urgent")})

ResolveByArgs == Arg("resolve_by", {Some(MaxTime + 3)})

NoAssignees == {"assignees" :> Some({})}

AssigneesArgs == Arg("assignees", {None} \cup {Some(a) : a \in SUBSET participant})

OwnerArgs == Arg("owner", {Some(p) : p \in participant})

CreatorArgs == Arg("creator", {Some(p) : p \in participant})

IncidentArgs == Arg("incident", {Some(i) : i \in incident})

TicketsArgs == Arg("tickets", {Some(k) : k \in SUBSET DOMAIN ticket \ {{}}})

TextArgs(field) == Arg(field, {None, Some("text")})

DescriptionArgs ==
    Arg("description", {None, Some("anything"), Some(INCIDENT_TICKET_DESCRIPTION)})

LifeStatusArgs == Arg("status", {Some("Open"), Some("Resolved"), Some("Closed")})

LifeCreateArgs == LifeStatusArgs

LifeUpdateArgs == Merge(Merge(LifeStatusArgs, Arg("priority", {Some("High")})), NoAssignees)

AttributeArgs ==
    Merge(Merge(Arg("status", {None, Some("Resolved")}), SourceArgs),
          Merge(PriorityArgs, ResolveByArgs))

\* A task with its incident, tickets and assignees, when they are passed.
IncidentTaskArgs ==
    Merge(Merge(IncidentArgs, TicketsArgs),
          Arg("assignees", {Some(a) : a \in SUBSET participant \ {{}}}))

ParticipantTaskArgs == Merge(Merge(CreatorArgs, OwnerArgs), AssigneesArgs)

TicketReadArgs ==
    Merge(Merge(TextArgs("resource_id"), TextArgs("resource_type")),
          Merge(TextArgs("weblink"), DescriptionArgs))

\* ---------------------------------------------------- the life of a task
\* A task is created, then resolved, reopened and changed as time passes.
Next ==
    \/ Tick
    \/ seq.task < MaxTasks /\ \E kwargs \in LifeCreateArgs : CreateTask(kwargs)
    \/ \E id \in DOMAIN task : \E kwargs \in LifeUpdateArgs : UpdateTask(id, kwargs)

Spec == Init /\ [][Next]_vars

\* ------------------------------------------------ the creation of a task
\* Tasks are created from every combination of the attributes.
NextCreate ==
    \/ Tick
    \/ seq.task < MaxTasks /\ \E kwargs \in AttributeArgs : CreateTask(kwargs)

SpecCreate == Init /\ [][NextCreate]_vars

\* ------------------------------------------------- the tasks of incidents
\* Incidents get tickets and tasks, the tasks get tickets and assignees, and
\* incidents are deleted.
NextIncident ==
    \/ CreateIncident
    \/ CreateParticipant
    \/ \E id \in incident : CreateTicket(Some(id))
    \/ seq.task < MaxRelatedTasks /\ \E kwargs \in IncidentTaskArgs : CreateTask(kwargs)
    \/ \E id \in incident : DeleteIncident(id)

SpecIncident == Init /\ [][NextIncident]_vars

\* ---------------------------------------------- the tasks of participants
\* Participants create, own and are assigned tasks, and are deleted.
NextParticipant ==
    \/ CreateParticipant
    \/ seq.task < MaxTasks /\ \E kwargs \in ParticipantTaskArgs : CreateTask(kwargs)
    \/ \E id \in participant : DeleteParticipant(id)

SpecParticipant == Init /\ [][NextParticipant]_vars

\* ------------------------------------------------ the assignees of a task
\* Tasks are created with a creator, an owner and assignees, and their
\* assignees are replaced by updates.
NextAssign ==
    \/ CreateParticipant
    \/ seq.task < MaxTasks /\ \E kwargs \in ParticipantTaskArgs : CreateTask(kwargs)
    \/ \E id \in DOMAIN task : \E kwargs \in AssigneesArgs : UpdateTask(id, kwargs)

SpecAssign == Init /\ [][NextAssign]_vars

\* -------------------------------------------------- the TicketRead shape
NextTicketRead == \E kwargs \in TicketReadArgs : ConstructTicketRead(kwargs)

SpecTicketRead == Init /\ [][NextTicketRead]_vars

\* ============================================================ properties
Stored == <<task, task_assignees, task_tickets, seq>>

\* The row an update is about to persist, before the listener runs.
Pending(id, kwargs) == ApplyUpdate(task[id], kwargs, TaskUpdate(kwargs))

\* C1: every update of a task whose in-flight status is resolved persists
\* resolved_at equal to the time of that update, whatever resolved_at and
\* status were before.
C1_ResolvedUpdateStamps ==
    [][LET id == last'.id
           kwargs == last'.kwargs
       IN (last'.op = "update_task" /\ last'.ok /\ UpdateTask(id, kwargs)
             /\ Pending(id, kwargs).status = TaskStatus.resolved)
          => task'[id].resolved_at = Some(now)]_vars

\* A task has just been resolved by an update, after time has passed, and
\* carries the time of the update.
C1_Witness ==
    /\ last.op = "update_task" /\ last.ok
    /\ Get(last.kwargs, "status") = Some(TaskStatus.resolved)
    /\ now > 0
    /\ task[last.id].status = TaskStatus.resolved
    /\ task[last.id].resolved_at = Some(now)

\* C2: in every reachable state a task whose status is resolved has a
\* resolved_at, tasks created resolved and never updated included.
C2_ResolvedHasTimestamp ==
    \A id \in DOMAIN task :
        task[id].status = TaskStatus.resolved => task[id].resolved_at # None

\* C3: every update whose resulting status is not resolved leaves resolved_at
\* as it was; reopening a resolved task keeps the earlier timestamp.
C3_UnresolvedUpdateKeeps ==
    [][LET id == last'.id
           kwargs == last'.kwargs
       IN (last'.op = "update_task" /\ last'.ok /\ UpdateTask(id, kwargs)
             /\ task'[id].status # TaskStatus.resolved)
          => task'[id].resolved_at = task[id].resolved_at]_vars

\* An update to open has left a task with the timestamp of its earlier
\* resolution.
C3_Witness ==
    /\ last.op = "update_task" /\ last.ok
    /\ Get(last.kwargs, "status") = Some(TaskStatus.open)
    /\ task[last.id].status = TaskStatus.open
    /\ task[last.id].resolved_at # None
    /\ task[last.id].resolved_at # Some(now)

\* C4: an update of a task that was resolved and stamped before the update and
\* stays resolved leaves resolved_at unchanged.
C4_StampedOncePerTransition ==
    [][LET id == last'.id
           kwargs == last'.kwargs
       IN (last'.op = "update_task" /\ last'.ok /\ UpdateTask(id, kwargs)
             /\ task[id].status = TaskStatus.resolved
             /\ task[id].resolved_at # None
             /\ task'[id].status = TaskStatus.resolved)
          => task'[id].resolved_at = task[id].resolved_at]_vars

\* C5: a task created at time now without a resolve_by stores now + 1 day for
\* the source incident, now + 7 days for post incident review and now + 1 day
\* for any other or absent source; a resolve_by that is passed is stored.
C5_DefaultResolveBy ==
    [][LET kwargs == last'.kwargs
       IN (last'.op = "create_task" /\ last'.ok /\ CreateTask(kwargs))
          => LET row == task'[last'.id]
                 source == Get(kwargs, "source")
             IN  IF Get(kwargs, "resolve_by") # None
                 THEN row.resolve_by = kwargs["resolve_by"]
                 ELSE IF source = Some("Post Incident Review")
                      THEN row.resolve_by = Some(now + 7)
                      ELSE row.resolve_by = Some(now + 1)]_vars

\* A post incident review task has just been created, after time has passed,
\* with the default of seven days.
C5_Witness ==
    /\ last.op = "create_task" /\ last.ok
    /\ "resolve_by" \notin DOMAIN last.kwargs
    /\ now > 0
    /\ task[last.id].source = TaskSource.post_incident_review
    /\ task[last.id].resolve_by = Some(now + 7)

\* Every foreign key of task, ticket, task_assignees and task_tickets holds
\* NULL or the id of a row that exists.
RefIntegrity ==
    /\ \A t \in DOMAIN task :
          /\ References(task[t].incident_id, incident)
          /\ References(task[t].creator_id, participant)
          /\ References(task[t].owner_id, participant)
    /\ \A k \in DOMAIN ticket : References(ticket[k].incident_id, incident)
    /\ \A r \in task_assignees : r.participant_id \in participant /\ r.task_id \in DOMAIN task
    /\ \A r \in task_tickets : r.ticket_id \in DOMAIN ticket /\ r.task_id \in DOMAIN task

\* C6: deleting an incident removes its tasks and tickets and every
\* association row of those, leaves the tasks and tickets of other incidents
\* and all participants in place, and leaves no reference to a deleted row.
C6_IncidentCascade ==
    last.op = "delete_incident" =>
        LET b == last.before
            gone_tasks == {t \in DOMAIN b.task : b.task[t].incident_id = Some(last.id)}
            gone_tickets == {k \in DOMAIN b.ticket : b.ticket[k].incident_id = Some(last.id)}
        IN  /\ task = Restrict(b.task, DOMAIN b.task \ gone_tasks)
            /\ ticket = Restrict(b.ticket, DOMAIN b.ticket \ gone_tickets)
            /\ task_assignees = {r \in b.task_assignees : r.task_id \notin gone_tasks}
            /\ task_tickets = {r \in b.task_tickets :
                                  r.task_id \notin gone_tasks /\ r.ticket_id \notin gone_tickets}
            /\ participant = b.participant
            /\ incident = b.incident \ {last.id}
            /\ RefIntegrity

\* An incident has just been deleted with an assigned task of its own, while a
\* task of another incident, linked to a ticket of the deleted one, stays.
C6_Witness ==
    /\ last.op = "delete_incident"
    /\ \E t \in DOMAIN last.before.task \ DOMAIN task :
          Assignees(last.before.task_assignees, t) # {}
    /\ \E u \in DOMAIN task :
          /\ task[u].incident_id # None
          /\ \E r \in last.before.task_tickets \ task_tickets : r.task_id = u

\* C7: deleting a participant removes the participant's assignment rows and
\* leaves every task the participant was assigned to, with its other
\* assignees, in place, also when the participant created or owns the task.
C7_ParticipantDeleteKeepsTasks ==
    last.op = "delete_participant" =>
        /\ \A r \in task_assignees : r.participant_id # last.id
        /\ \A t \in DOMAIN last.before.task :
              last.id \in Assignees(last.before.task_assignees, t)
              => /\ t \in DOMAIN task
                 /\ task[t] = last.before.task[t]
                 /\ Assignees(task_assignees, t) =
                       Assignees(last.before.task_assignees, t) \ {last.id}

\* C7 as amended: the tasks the participant neither created nor owns stay with
\* their other assignees; the tasks the participant created or owns are deleted
\* with all their assignment rows.
C7_ParticipantCascade ==
    last.op = "delete_participant" =>
        /\ \A r \in task_assignees : r.participant_id # last.id
        /\ \A t \in DOMAIN last.before.task :
              last.id \in Assignees(last.before.task_assignees, t)
              => IF \/ last.before.task[t].creator_id = Some(last.id)
                    \/ last.before.task[t].owner_id = Some(last.id)
                 THEN /\ t \notin DOMAIN task
                      /\ Assignees(task_assignees, t) = {}
                 ELSE /\ t \in DOMAIN task
                      /\ task[t] = last.before.task[t]
                      /\ Assignees(task_assignees, t) =
                            Assignees(last.before.task_assignees, t) \ {last.id}

\* A participant assigned to a task of another creator and owner has just
\* been deleted, and the task keeps its other assignee.
C7_Witness ==
    /\ last.op = "delete_participant"
    /\ \E t \in DOMAIN task :
          /\ last.id \in Assignees(last.before.task_assignees, t)
          /\ Assignees(task_assignees, t) # {}
          /\ task[t].owner_id # None

\* C8: a TaskUpdate without assignees fails validation and changes nothing
\* stored; one with the empty list succeeds and leaves the task without
\* assignees.
C8_AssigneesRequired ==
    [][LET id == last'.id
           kwargs == last'.kwargs
       IN (last'.op = "update_task" /\ UpdateTask(id, kwargs))
          => /\ "assignees" \notin DOMAIN kwargs
                => ~last'.ok /\ UNCHANGED <<Stored, incident, participant, ticket>>
             /\ Get(kwargs, "assignees") = Some({})
                => last'.ok /\ Assignees(task_assignees', id) = {}]_vars

\* An update without assignees of an assigned task has just failed
\* validation, and the task has its assignees still.
C8_Witness ==
    /\ last.op = "update_task" /\ ~last.ok
    /\ "assignees" \notin DOMAIN last.kwargs
    /\ Assignees(task_assignees, last.id) # {}

\* C9: no value outside the enumerations of source, priority and status
\* reaches the task table.
C9_StoredInEnumerations ==
    \A id \in DOMAIN task :
        /\ task[id].status \in Values(TaskStatus)
        /\ task[id].source \in Values(TaskSource)
        /\ task[id].priority \in Values(TaskPriority)

\* C10: a TicketRead shape has the fixed description for every input: absent,
\* None, and any string.
C10_FixedDescription ==
    ticket_read.constructed
    => ticket_read.shape.description = Some(INCIDENT_TICKET_DESCRIPTION)

\* A TicketRead shape has been constructed from another description.
C10_Witness ==
    /\ ticket_read.constructed
    /\ Get(ticket_read.kwargs, "description") = Some("anything")
    /\ ticket_read.shape.description = Some(INCIDENT_TICKET_DESCRIPTION)

====
